---- MODULE Spec2Model ----
(***************************************************************************)
(* Model of the Claude Code launcher's binary-acquisition core             *)
(* (src/claude_launcher.py): platform resolution, the installer worker     *)
(* (ClaudeInstaller.run), the uninstaller worker (ClaudeUninstaller.run)   *)
(* and the launcher window's install/update/uninstall controls.            *)
(*                                                                         *)
(* Text that the program lower-cases, searches or takes prefixes of is a   *)
(* sequence of one-character strings; Str turns it into a TLA+ string for  *)
(* messages.  Python's None for such a value is the sequence <<"None">>,   *)
(* which is no character sequence.                                         *)
(***************************************************************************)
EXTENDS Integers, Sequences, FiniteSets, TLC

\* ------------------------------------------------------------------ bounds
\* Largest number of non-empty chunks one download response delivers.
MaxChunks == 2
\* Largest number of worker runs (install or uninstall) in one behaviour.
MaxRuns == 2
\* Deepest nesting of event loops (modal dialogs, processEvents) in the window.
MaxDepth == 3
\* Largest number of worker threads the window has started and not yet heard from.
MaxWorkers == 2
\* Largest number of latest-version lookups recorded in one behaviour.
MaxLookups == 2
\* Seconds the clock advances in one step, and the latest time modelled.
TickSeconds == 1800
MaxTime == 5400
\* Longest file content, in bytes, given to the checksum functions.
MaxFileLen == 3

\* ------------------------------------------------------------------ text
None == <<"None">>

UpperAlpha == <<"A","B","C","D","E","F","G","H","I","J","K","L","M",
                "N","O","P","Q","R","S","T","U","V","W","X","Y","Z">>
LowerAlpha == <<"a","b","c","d","e","f","g","h","i","j","k","l","m",
                "n","o","p","q","r","s","t","u","v","w","x","y","z">>

\* str.lower() on one character.
LowerChar(c) ==
    IF \E i \in 1..Len(UpperAlpha) : UpperAlpha[i] = c
    THEN LowerAlpha[CHOOSE i \in 1..Len(UpperAlpha) : UpperAlpha[i] = c]
    ELSE c

\* str.lower()
Lower(s) == [i \in 1..Len(s) |-> LowerChar(s[i])]

\* The TLA+ string spelled by a character sequence.
RECURSIVE Str(_)
Str(s) == IF Len(s) = 0 THEN "" ELSE Head(s) \o Str(Tail(s))

\* str.startswith(p)
StartsWith(s, p) == Len(s) >= Len(p) /\ SubSeq(s, 1, Len(p)) = p

\* `p in s` for strings.
Contains(s, p) ==
    \E i \in 1..(Len(s) + 1) :
        i + Len(p) - 1 <= Len(s) /\ SubSeq(s, i, i + Len(p) - 1) = p

\* ------------------------------------------------------------------ regular expressions
Digits == {"0","1","2","3","4","5","6","7","8","9"}
Whitespace == {" ", "\t", "\n", "\r"}

\* The index after the longest run of characters of `class` that starts at i.
RECURSIVE RunEnd(_, _, _)
RunEnd(s, i, class) ==
    IF i <= Len(s) /\ s[i] \in class THEN RunEnd(s, i + 1, class) ELSE i

\* [0-9]+\.[0-9]+\.[0-9]+ matched at i: the index after the match, or 0.
TripleEnd(s, i) ==
    LET a == RunEnd(s, i, Digits) IN
    IF a = i \/ a > Len(s) \/ s[a] # "." THEN 0
    ELSE LET b == RunEnd(s, a + 1, Digits) IN
         IF b = a + 1 \/ b > Len(s) \/ s[b] # "." THEN 0
         ELSE LET c == RunEnd(s, b + 1, Digits) IN
              IF c = b + 1 THEN 0 ELSE c

\* v?([0-9]+\.[0-9]+\.[0-9]+) matched at i: group(1), or None.
VersionAt(s, i) ==
    LET j == IF i <= Len(s) /\ s[i] = "v" /\ TripleEnd(s, i + 1) # 0 THEN i + 1 ELSE i
    IN  IF TripleEnd(s, j) = 0 THEN None ELSE SubSeq(s, j, TripleEnd(s, j) - 1)

\* The leftmost of the start positions at which a pattern matches.
Leftmost(hits) == CHOOSE i \in hits : \A k \in hits : i <= k

\* re.search(r"v?([0-9]+\.[0-9]+\.[0-9]+)", s): group(1), or None.
SearchVersion(s) ==
    LET hits == {i \in 1..Len(s) : VersionAt(s, i) # None}
    IN  IF hits = {} THEN None ELSE VersionAt(s, Leftmost(hits))

\* ^##\s+v?([0-9]+\.[0-9]+\.[0-9]+) with re.MULTILINE, matched at i.
HeaderAt(s, i) ==
    IF /\ (IF i = 1 THEN TRUE ELSE s[i - 1] = "\n")
       /\ i + 1 <= Len(s) /\ s[i] = "#" /\ s[i + 1] = "#"
       /\ RunEnd(s, i + 2, Whitespace) > i + 2
    THEN VersionAt(s, RunEnd(s, i + 2, Whitespace))
    ELSE None

RELEASED == <<"R","e","l","e","a","s","e","d",":">>

\* Released:\s*v?([0-9]+\.[0-9]+\.[0-9]+) matched at i.
ReleasedAt(s, i) ==
    IF i + Len(RELEASED) - 1 <= Len(s) /\ SubSeq(s, i, i + Len(RELEASED) - 1) = RELEASED
    THEN VersionAt(s, RunEnd(s, i + Len(RELEASED), Whitespace))
    ELSE None

\* re.search of the two changelog patterns: group(1), or None.
SearchHeader(s) ==
    LET hits == {i \in 1..Len(s) : HeaderAt(s, i) # None}
    IN  IF hits = {} THEN None ELSE HeaderAt(s, Leftmost(hits))
SearchReleased(s) ==
    LET hits == {i \in 1..Len(s) : ReleasedAt(s, i) # None}
    IN  IF hits = {} THEN None ELSE ReleasedAt(s, Leftmost(hits))

\* str.strip()
RECURSIVE Strip(_)
Strip(s) ==
    IF Len(s) = 0 THEN s
    ELSE IF Head(s) \in Whitespace THEN Strip(Tail(s))
    ELSE IF s[Len(s)] \in Whitespace THEN Strip(SubSeq(s, 1, Len(s) - 1))
    ELSE s

\* ------------------------------------------------------------------ OSChecker
WIN32 == <<"w","i","n","3","2">>
MUSL == <<"m","u","s","l">>

OS_ARCH_MAP ==
    ( <<"darwin", "x64">>   :> <<"d","a","r","w","i","n","-","x","6","4">>
   @@ <<"darwin", "arm64">> :> <<"d","a","r","w","i","n","-","a","r","m","6","4">>
   @@ <<"linux", "x64">>    :> <<"l","i","n","u","x","-","x","6","4">>
   @@ <<"linux", "arm64">>  :> <<"l","i","n","u","x","-","a","r","m","6","4">>
   @@ <<"win32", "x64">>    :> <<"w","i","n","3","2","-","x","6","4">>
   @@ <<"win32", "arm64">>  :> <<"w","i","n","3","2","-","a","r","m","6","4">> )

get_os_platform(sys_platform) ==
    IF sys_platform = "darwin" THEN "darwin"
    ELSE IF sys_platform = "linux" THEN "linux"
    ELSE IF sys_platform = "win32" THEN "win32"
    ELSE "unknown"

get_architecture(machine) ==
    LET arch == Str(Lower(machine)) IN
    IF arch \in {"x86_64", "amd64"} THEN "x64"
    ELSE IF arch \in {"arm64", "aarch64"} THEN "arm64"
    ELSE arch

\* Mutant of is_musl_linux: the library files are looked for in every case.
is_musl_linux_FilesAlways(probe) ==
    IF ~probe.raised THEN Contains(Lower(probe.stdout), MUSL) \/ probe.musl_file
    ELSE probe.musl_file

\* probe = [raised, stdout, musl_file]: how `ldd /bin/ls` ends on this host
\* and whether one of the two musl library files exists.
is_musl_linux(probe) ==
    IF ~probe.raised THEN Contains(Lower(probe.stdout), MUSL)
    ELSE probe.musl_file

\* Mutant of get_download_info: the musl suffix does not depend on the OS.
get_download_info_MuslAnyOS(h) ==
    LET os_name == get_os_platform(h.sys_platform)
        arch == get_architecture(h.machine)
        key == <<os_name, arch>>
    IN  IF key \in DOMAIN OS_ARCH_MAP
        THEN LET platform_name == OS_ARCH_MAP[key] IN
             IF is_musl_linux(h.probe)
             THEN <<platform_name \o <<"-">> \o MUSL, arch>>
             ELSE <<platform_name, arch>>
        ELSE <<None, None>>

\* <<platform_name, arch>>, or <<None, None>> on an unsupported platform.
get_download_info(h) ==
    LET os_name == get_os_platform(h.sys_platform)
        arch == get_architecture(h.machine)
        key == <<os_name, arch>>
    IN  IF key \in DOMAIN OS_ARCH_MAP
        THEN LET platform_name == OS_ARCH_MAP[key] IN
             IF os_name = "linux" /\ is_musl_linux(h.probe)
             THEN <<platform_name \o <<"-">> \o MUSL, arch>>
             ELSE <<platform_name, arch>>
        ELSE <<None, None>>

get_binary_name_for_platform(platform_name) ==
    IF StartsWith(platform_name, WIN32)
    THEN <<"c","l","a","u","d","e",".","e","x","e">>
    ELSE <<"c","l","a","u","d","e">>

\* ------------------------------------------------------------------ JSON
\* A decoded JSON value: [t |-> "null"], [t |-> "num", n |-> _],
\* [t |-> "str", s |-> chars], [t |-> "list", l |-> seq], [t |-> "dict", d |-> f].
JNull == [t |-> "null"]
JStr(s) == [t |-> "str", s |-> s]
JNum(n) == [t |-> "num", n |-> n]
JList(l) == [t |-> "list", l |-> l]
JDict(f) == [t |-> "dict", d |-> f]
JEmptyDict == JDict(<<>>)

\* Python truthiness of a decoded value.
Truthy(j) ==
    CASE j.t = "null" -> FALSE
      [] j.t = "num"  -> j.n # 0
      [] j.t = "str"  -> Len(j.s) > 0
      [] j.t = "list" -> Len(j.l) > 0
      [] j.t = "dict" -> DOMAIN j.d # {}

\* j.get(k, default): only a dict has .get; anything else raises AttributeError.
Raised == [t |-> "raised"]
DictGet(j, k, default) ==
    IF j.t # "dict" THEN Raised
    ELSE IF k \in DOMAIN j.d THEN j.d[k] ELSE default

\* ClaudeInstaller._get_checksum: the checksum value, JNull, or Raised.
get_checksum(platform_name, manifest) ==
    LET platforms == DictGet(manifest, "platforms", JEmptyDict) IN
    IF platforms.t = "raised" THEN Raised
    ELSE LET platform_info == DictGet(platforms, platform_name, JNull) IN
         IF platform_info.t = "raised" THEN Raised
         ELSE IF Truthy(platform_info)
              THEN DictGet(platform_info, "checksum", JNull)
              ELSE JNull

\* ------------------------------------------------------------------ SHA-256
HexDigits == <<"0","1","2","3","4","5","6","7","8","9","a","b","c","d","e","f">>

\* The digest of a byte sequence, folded byte by byte as hashlib's update()
\* does, here with an 8-bit state.
RECURSIVE Digest(_, _)
Digest(data, acc) ==
    IF Len(data) = 0 THEN acc
    ELSE Digest(Tail(data), (acc * 13 + Head(data) * 29 + 11) % 256)

\* hexdigest(): lower-case hex.
HexDigest(data) ==
    LET h == Digest(data, 90) IN
    <<HexDigits[(h \div 16) + 1], HexDigits[(h % 16) + 1]>>

\* compute_sha256: None when the file cannot be read.
compute_sha256(data, readable) == IF readable THEN HexDigest(data) ELSE None

\* Mutant of verify_checksum: the two digests are compared as they are spelled.
verify_checksum_CaseSensitive(data, readable, expected) ==
    LET actual_checksum == compute_sha256(data, readable) IN
    IF actual_checksum = None THEN "false"
    ELSE IF expected.t # "str" THEN "raised"
    ELSE IF actual_checksum = expected.s THEN "true"
    ELSE "false"

\* ClaudeInstaller._verify_checksum: "true", "false", or "raised" when the
\* expected checksum has no .lower() (it is not a string).
verify_checksum(data, readable, expected) ==
    LET actual_checksum == compute_sha256(data, readable) IN
    IF actual_checksum = None THEN "false"
    ELSE IF expected.t # "str" THEN "raised"
    ELSE IF Lower(actual_checksum) = Lower(expected.s) THEN "true"
    ELSE "false"

\* ------------------------------------------------------------------ environment
CLAUDE_DOWNLOAD_BASE ==
    "https://storage.googleapis.com/claude-code-dist-86c565f3-f756-42ad-8dfa-d59b1c096819/claude-code-releases"

\* The hosts the workers are run on: sys.platform, platform.machine() and
\* the musl probe's outcome.
GlibcProbe == [raised |-> FALSE, stdout |-> <<"l","i","b","c",".","s","o">>, musl_file |-> FALSE]
MuslProbe == [raised |-> FALSE, stdout |-> <<"M","u","s","l">>, musl_file |-> TRUE]
Hosts ==
    { [sys_platform |-> "linux", machine |-> <<"x","8","6","_","6","4">>, probe |-> GlibcProbe],
      [sys_platform |-> "linux", machine |-> <<"a","a","r","c","h","6","4">>, probe |-> MuslProbe],
      [sys_platform |-> "win32", machine |-> <<"A","M","D","6","4">>, probe |-> GlibcProbe],
      [sys_platform |-> "freebsd", machine |-> <<"a","m","d","6","4">>, probe |-> GlibcProbe] }

\* What set_version() is given; None when it was never called.
Version == <<"2",".","1",".","4","2">>
Versions == {Version}

\* The bytes a response body is made of, and the published binary.
Bytes == {1, 2}
PublishedBinary == <<1, 2>>

\* Entries of the staging directory <home>/.claude/downloads.
Names == {"claude", "claude.exe", "notes.txt", "cache"}
Absent == [kind |-> "absent", data |-> <<>>, x |-> FALSE]
File(data, x) == [kind |-> "file", data |-> data, x |-> x]
Dir == [kind |-> "dir", data |-> <<>>, x |-> FALSE]
EmptyStaging == [n \in Names |-> Absent]

\* The staging directory before the first run: <<exists, entries>>.
InitialStagings ==
    { <<FALSE, EmptyStaging>>,
      <<TRUE, EmptyStaging>>,
      <<TRUE, [EmptyStaging EXCEPT !["notes.txt"] = File(<<1>>, FALSE)]>>,
      <<TRUE, [EmptyStaging EXCEPT !["cache"] = Dir]>>,
      <<TRUE, [EmptyStaging EXCEPT !["claude"] = File(PublishedBinary, TRUE)]>>,
      <<TRUE, [EmptyStaging EXCEPT !["claude.exe"] = File(<<2>>, FALSE),
                                   !["cache"] = Dir]>> }

\* What GET {base}/{version}/manifest.json can decode to, for a platform
\* token p; "error" is a request that raised (unreachable, non-2xx, timeout,
\* undecodable body).
Upper(s) == [i \in 1..Len(s) |->
               IF \E k \in 1..Len(LowerAlpha) : LowerAlpha[k] = s[i]
               THEN UpperAlpha[CHOOSE k \in 1..Len(LowerAlpha) : LowerAlpha[k] = s[i]]
               ELSE s[i]]
ManifestWith(p, checksum) ==
    JDict("platforms" :> JDict(p :> JDict("checksum" :> checksum)))
ManifestResponses(p) ==
    { JNull, JEmptyDict, JList(<<1>>),
      JDict("version" :> JStr(Version)),
      JDict("platforms" :> JNull),
      JDict("platforms" :> JEmptyDict),
      JDict("platforms" :> JDict(p :> JStr(<<"x">>))),
      JDict("platforms" :> JDict(p :> JDict("size" :> JNum(2)))),
      ManifestWith(p, JStr(<<>>)),
      ManifestWith(p, JNum(7)),
      ManifestWith(p, JStr(HexDigest(PublishedBinary))),
      ManifestWith(p, JStr(Upper(HexDigest(PublishedBinary)))),
      ManifestWith(p, JStr(HexDigest(<<2, 1>>))) }

\* ------------------------------------------------------------------ state
VARIABLES
    host,            \* the host the launcher runs on
    dl_exists,       \* the staging directory exists
    dl_entries,      \* its entries, by name
    cli_installed,   \* the native hook's install footprint is in place
    runs,            \* worker runs started so far
    ipc,             \* ClaudeInstaller.run: where the thread is
    latest_version,  \* ClaudeInstaller._latest_version
    cancelled,       \* ClaudeInstaller.cancelled
    platform_name,   \* run(): platform_name
    manifest,        \* run(): manifest
    checksum,        \* run(): checksum
    total_size,      \* _download_file: total_size
    downloaded,      \* _download_file: downloaded
    dl_exit,         \* _download_file: which return ended it
    verified,        \* run(): what _verify_checksum answered
    result,          \* run(): <<success, message>> still to be emitted
    ilog,            \* the installer's signals and external calls, in order
    upc,             \* ClaudeUninstaller.run: where the thread is
    ubinary,         \* _run_claude_uninstall: binary_path (a name, or "")
    uresult,         \* _run_claude_uninstall: <<success, message>>
    ulog,            \* the uninstaller's signals and external calls, in order
    stack,           \* the window's handlers waiting in a nested event loop
    timer_pending,   \* QTimer.singleShot(500, _check_claude_update) not yet fired
    install_btn,     \* ClaudeLauncherWindow.install_btn: [enabled, visible]
    update_btn,      \* ClaudeLauncherWindow.update_btn
    uninstall_btn,   \* ClaudeLauncherWindow.uninstall_btn
    installer_obj,   \* ClaudeLauncherWindow.installer: "none", "created", "started"
    running,         \* uninstaller threads the window started that still run
    queued,          \* their finished(success, message) signals not yet delivered
    now,             \* time.time(), in seconds
    vm,              \* the VersionManager built last: [cache, cache_time]
    lookups,         \* the get_latest_version calls made so far, in order
    vcall,           \* the last VersionManager operation: its inputs and its result
    pcall,           \* the last call of a function of the core: inputs and result
    settings,        \* ClaudeLauncher.settings of the launcher object in use
    sfile,           \* <home>/.claude/settings.json on disk
    last_set,        \* per variable name, the value of the last set_env_var call
    set_raised,      \* some set_env_var call raised instead of returning
    claude_path,     \* the text of ClaudeLauncherWindow.claude_path_edit
    ifin             \* the last run of _on_install_finished: its signal and its refresh

fsVars == <<dl_exists, dl_entries>>
installerVars == <<ipc, latest_version, cancelled, platform_name, manifest, checksum,
                   total_size, downloaded, dl_exit, verified, result, ilog>>
uninstallerVars == <<upc, ubinary, uresult, ulog>>
guiVars == <<stack, timer_pending, install_btn, update_btn, uninstall_btn, installer_obj,
             running, queued>>
workerVars == <<runs, installerVars, uninstallerVars>>
storeVars == <<settings, sfile, last_set, set_raised>>
pathVars == <<claude_path, ifin>>
libVars == <<now, vm, lookups, vcall, pcall, storeVars, pathVars>>
vars == <<host, dl_exists, dl_entries, cli_installed, runs, ipc, latest_version,
          cancelled, platform_name, manifest, checksum, total_size, downloaded,
          dl_exit, verified, result, ilog, upc, ubinary, uresult, ulog, stack,
          timer_pending, install_btn, update_btn, uninstall_btn, installer_obj, running,
          queued, now, vm, lookups, vcall, pcall, settings, sfile, last_set, set_raised,
          claude_path, ifin>>

\* Entries of the logs.
Progress(percent, message) == [t |-> "progress", percent |-> percent, message |-> message]
Finished(success, message) == [t |-> "finished", success |-> success, message |-> message]
Error(message) == [t |-> "error", message |-> message]
\* An external call made, and (after it) that it raised or exited non-zero.
Call(what) == [t |-> "call", what |-> what]
Failed(what) == [t |-> "failed", what |-> what]

NoResult == <<FALSE, "">>

\* A QPushButton is enabled and visible until told otherwise.
Button(enabled, visible) == [enabled |-> enabled, visible |-> visible]

\* The workers before the first run.
InitWorkers ==
    /\ runs = 0
    /\ ipc = "idle"
    /\ latest_version = None
    /\ cancelled = FALSE
    /\ platform_name = None
    /\ manifest = JNull
    /\ checksum = JNull
    /\ total_size = 0
    /\ downloaded = 0
    /\ dl_exit = "none"
    /\ verified = "none"
    /\ result = NoResult
    /\ ilog = <<>>
    /\ upc = "idle"
    /\ ubinary = ""
    /\ uresult = NoResult
    /\ ulog = <<>>

\* ClaudeLauncherWindow.__init__: the buttons as built, the status check armed.
InitWindow ==
    /\ stack = <<>>
    /\ timer_pending = TRUE
    /\ install_btn = Button(TRUE, TRUE)
    /\ update_btn = Button(TRUE, TRUE)
    /\ uninstall_btn = Button(TRUE, TRUE)
    /\ installer_obj = "none"
    /\ running = 0
    /\ queued = <<>>

\* ------------------------------------------------------------------ settings store
\* ClaudeLauncher of claude_launcher_typer.py.  The names and values given
\* to set_env_var.
EnvNames == <<"API_KEY", "HTTP_PROXY">>
EnvValues == {<<"1">>, <<"2">>, <<>>}

\* settings.json: absent, or the members of its "env" object in the order
\* json.dump wrote them, and whether the closing braces were written.
NoFile == [kind |-> "absent", items |-> <<>>, closed |-> FALSE]
FileOf(items, closed) == [kind |-> "file", items |-> items, closed |-> closed]

DefaultSettings == JDict("env" :> JEmptyDict)

\* json.dump(self.settings, f): the members of "env", one after the other.
RECURSIVE Members(_, _)
Members(d, names) ==
    IF Len(names) = 0 THEN <<>>
    ELSE (IF Head(names) \in DOMAIN d THEN <<<<Head(names), d[Head(names)].s>>>> ELSE <<>>)
             \o Members(d, Tail(names))
Dump(j) == Members(DictGet(j, "env", JEmptyDict).d, EnvNames)

\* json.load(f): the dict the members spell.
Load(items) ==
    JDict("env" :> JDict([k \in {items[i][1] : i \in 1..Len(items)} |->
                            JStr(items[CHOOSE i \in 1..Len(items) :
                                         /\ items[i][1] = k
                                         /\ \A m \in (i + 1)..Len(items) : items[m][1] # k][2])]))

\* _load_settings, lines 89-100: a missing file or an undecodable one gives
\* {"env": {}}.
load_settings(f) ==
    IF f.kind = "file"
    THEN IF f.closed THEN Load(f.items) ELSE DefaultSettings
    ELSE DefaultSettings

\* get_env_var, lines 159-161.
get_env_var(j, var_name) == DictGet(DictGet(j, "env", JEmptyDict), var_name, JNull)

\* set_env_var, lines 165-167: self.settings after the assignment.
SetInMemory(j, var_name, value) ==
    LET env == IF "env" \in DOMAIN j.d THEN j.d["env"] ELSE JEmptyDict
    IN  JDict(("env" :> JDict((var_name :> JStr(value)) @@ env.d)) @@ j.d)

\* ClaudeLauncher(): __init__, lines 85-87.
NewLauncher ==
    /\ settings' = load_settings(sfile)
    /\ UNCHANGED <<sfile, last_set, set_raised, now, vm, lookups, vcall, pcall, host,
                   fsVars, cli_installed, workerVars, guiVars, pathVars>>

\* set_env_var(var_name, value), lines 163-168, with _save_settings: the
\* file is rewritten, or open() raises (the file stays as it was), or the
\* write raises after the file was truncated and n members were written.
SetEnvVar ==
    \E i \in 1..Len(EnvNames), value \in EnvValues :
        LET var_name == EnvNames[i]
            after == SetInMemory(settings, var_name, value)
        IN  /\ settings' = after
            /\ last_set' = [last_set EXCEPT ![var_name] = JStr(value)]
            /\ \/ /\ sfile' = FileOf(Dump(after), TRUE)
                  /\ UNCHANGED set_raised
               \/ /\ UNCHANGED sfile
                  /\ set_raised' = TRUE
               \/ \E n \in 0..Len(Dump(after)) :
                      /\ sfile' = FileOf(SubSeq(Dump(after), 1, n), FALSE)
                      /\ set_raised' = TRUE
            /\ UNCHANGED <<now, vm, lookups, vcall, pcall, host, fsVars, cli_installed,
                           workerVars, guiVars, pathVars>>

InitStore ==
    /\ sfile = NoFile
    /\ settings = load_settings(NoFile)
    /\ last_set = [n \in {EnvNames[i] : i \in 1..Len(EnvNames)} |-> JNull]
    /\ set_raised = FALSE

NextStore ==
    \/ NewLauncher
    \/ SetEnvVar

\* No finished signal of an installer has been handled.
NotHandled == [run |-> 0]

\* No call made yet.
NoCall == [op |-> "none"]

\* VersionManager.__init__: _cache and _cache_time are None (0 stands for
\* the None time: both are false in `if self._cache and self._cache_time`).
NewVersionManager == [cache |-> None, cache_time |-> 0]

\* The library before the first call.
InitLibrary ==
    /\ now = TickSeconds
    /\ vm = NewVersionManager
    /\ lookups = <<>>
    /\ vcall = NoCall
    /\ pcall = NoCall
    /\ InitStore
    /\ claude_path = "claude"
    /\ ifin = NotHandled

Init ==
    /\ InitLibrary
    /\ host \in Hosts
    /\ \E s \in InitialStagings : dl_exists = s[1] /\ dl_entries = s[2]
    /\ cli_installed = FALSE
    /\ InitWorkers
    /\ InitWindow

\* ------------------------------------------------------------------ ClaudeInstaller
\* No worker thread is running.
NoWorker == ipc \in {"idle", "done", "crashed"} /\ upc \in {"idle", "done"}

binary_name == get_binary_name_for_platform(platform_name)
\* The staged file's name in the staging directory.
staged == Str(binary_name)
\* run(): url
DownloadUrl ==
    CLAUDE_DOWNLOAD_BASE \o "/" \o Str(latest_version) \o "/" \o Str(platform_name)
        \o "/" \o Str(binary_name)

\* ClaudeInstaller(parent), set_version(v) unless v is None, start().
InstallerStart(v) ==
    /\ NoWorker
    /\ runs < MaxRuns
    /\ runs' = runs + 1
    /\ ipc' = "start"
    /\ latest_version' = v
    /\ cancelled' = FALSE
    /\ platform_name' = None
    /\ manifest' = JNull
    /\ checksum' = JNull
    /\ total_size' = 0
    /\ downloaded' = 0
    /\ dl_exit' = "none"
    /\ verified' = "none"
    /\ result' = NoResult
    /\ ilog' = <<>>
    /\ UNCHANGED <<libVars, guiVars, host, fsVars, cli_installed, uninstallerVars>>

\* cancel(), from the caller's thread, while the worker runs.
Cancel ==
    /\ ipc \notin {"idle", "done", "crashed"}
    /\ ~cancelled
    /\ cancelled' = TRUE
    /\ UNCHANGED <<libVars, guiVars, host, fsVars, cli_installed, runs, ipc, latest_version, platform_name,
                   manifest, checksum, total_size, downloaded, dl_exit, verified, result, ilog,
                   uninstallerVars>>

\* run(), lines 568-586: the version, the platform, the download directory.
RunPrologue ==
    /\ ipc = "start"
    /\ LET info == get_download_info(host) IN
       IF latest_version = None \/ Len(latest_version) = 0
       THEN /\ ilog' = Append(ilog, Finished(FALSE, "No version specified"))
            /\ ipc' = "done"
            /\ UNCHANGED <<platform_name, dl_exists>>
       ELSE IF info[1] = None \/ Len(info[1]) = 0
       THEN /\ ilog' = Append(ilog, Finished(FALSE, "Unsupported platform for automatic download"))
            /\ ipc' = "done"
            /\ platform_name' = info[1]
            /\ UNCHANGED dl_exists
       ELSE /\ platform_name' = info[1]
            /\ \E ok \in BOOLEAN :
                 IF ok
                 THEN /\ dl_exists' = TRUE
                      /\ ilog' = Append(ilog, Call("mkdir"))
                      /\ ipc' = "manifest"
                 ELSE /\ UNCHANGED dl_exists
                      /\ ilog' = ilog \o <<Call("mkdir"), Failed("mkdir"),
                                           Error("Failed to create download directory: EACCES"),
                                           Finished(FALSE, "EACCES")>>
                      /\ ipc' = "done"
    /\ UNCHANGED <<libVars, guiVars, host, dl_entries, cli_installed, runs, latest_version, cancelled,
                   manifest, checksum, total_size, downloaded, dl_exit, verified, result,
                   uninstallerVars>>

\* run(), lines 588-593, with _fetch_manifest.
RunFetchManifest ==
    /\ ipc = "manifest"
    /\ \/ \* the request raises: _fetch_manifest emits error and returns None
          /\ manifest' = JNull
          /\ ilog' = ilog \o <<Progress(0, "Fetching manifest..."), Call("GET manifest"),
                               Failed("GET manifest"),
                               Error("Failed to fetch manifest: ConnectionError"),
                               Finished(FALSE, "Failed to fetch manifest")>>
          /\ ipc' = "done"
       \/ \E m \in ManifestResponses(platform_name) :
          /\ manifest' = m
          /\ IF Truthy(m)
             THEN /\ ilog' = ilog \o <<Progress(0, "Fetching manifest..."), Call("GET manifest")>>
                  /\ ipc' = "checksum"
             ELSE /\ ilog' = ilog \o <<Progress(0, "Fetching manifest..."), Call("GET manifest"),
                                       Finished(FALSE, "Failed to fetch manifest")>>
                  /\ ipc' = "done"
    /\ UNCHANGED <<libVars, guiVars, host, fsVars, cli_installed, runs, latest_version, cancelled,
                   platform_name, checksum, total_size, downloaded, dl_exit, verified, result,
                   uninstallerVars>>

\* run(), lines 595-599, with _get_checksum.
RunGetChecksum ==
    /\ ipc = "checksum"
    /\ LET c == get_checksum(platform_name, manifest) IN
       IF c.t = "raised"
       THEN /\ ipc' = "crashed"
            /\ UNCHANGED <<checksum, ilog>>
       ELSE IF ~Truthy(c)
       THEN /\ ilog' = Append(ilog, Finished(FALSE,
                          "Platform " \o Str(platform_name) \o " not found in manifest"))
            /\ ipc' = "done"
            /\ UNCHANGED checksum
       ELSE /\ checksum' = c
            /\ ipc' = "download"
            /\ UNCHANGED ilog
    /\ UNCHANGED <<libVars, guiVars, host, fsVars, cli_installed, runs, latest_version, cancelled,
                   platform_name, manifest, total_size, downloaded, dl_exit, verified, result,
                   uninstallerVars>>

\* Mutant of AfterDownloadFailed: _download_file's answer is not looked at.
AfterDownloadFailed_Ignored(log) ==
    /\ ilog' = log
    /\ ipc' = "verify"

\* run(), lines 605-608, once _download_file has returned False.
AfterDownloadFailed(log) ==
    /\ ilog' = IF ~cancelled THEN Append(log, Finished(FALSE, "Download failed")) ELSE log
    /\ ipc' = "done"

\* _download_file, lines 481-489: the request, the headers, open(dest_path, 'wb').
RunDownloadOpen ==
    /\ ipc = "download"
    /\ LET log == ilog \o <<Progress(0, "Downloading from " \o DownloadUrl \o "..."),
                            Call("GET binary")>> IN
       \/ \* requests.get or raise_for_status raises, or content-length is no integer
          /\ dl_exit' = "error"
          /\ AfterDownloadFailed(log \o <<Failed("GET binary"), Error("HTTPError")>>)
          /\ UNCHANGED <<dl_entries, total_size, downloaded>>
       \/ \E size \in {0, Len(PublishedBinary)} :
          /\ total_size' = size
          /\ downloaded' = 0
          /\ \/ \* open() raises
                /\ dl_exit' = "error"
                /\ AfterDownloadFailed(log \o <<Call("open"), Failed("open"), Error("OSError")>>)
                /\ UNCHANGED dl_entries
             \/ /\ dl_entries[staged].kind # "dir"
                /\ dl_entries' = [dl_entries EXCEPT ![staged] =
                                     File(<<>>, dl_entries[staged].x)]
                /\ ilog' = Append(log, Call("open"))
                /\ ipc' = "chunks"
                /\ UNCHANGED dl_exit
    /\ UNCHANGED <<libVars, guiVars, host, dl_exists, cli_installed, runs, latest_version, cancelled,
                   platform_name, manifest, checksum, verified, result, uninstallerVars>>

\* _download_file, lines 490-502: one turn of the chunk loop, or its end.
RunDownloadChunk ==
    /\ ipc = "chunks"
    /\ \/ \* iter_content yields a chunk (possibly empty)
          \E chunk \in {<<>>} \cup {<<b>> : b \in Bytes} :
          IF cancelled
          THEN /\ dl_exit' = "cancelled"
               /\ AfterDownloadFailed(ilog)
               /\ UNCHANGED <<dl_entries, downloaded>>
          ELSE IF Len(chunk) > 0
          THEN /\ Len(dl_entries[staged].data) < MaxChunks
               /\ dl_entries' = [dl_entries EXCEPT ![staged].data = @ \o chunk]
               /\ downloaded' = downloaded + Len(chunk)
               /\ ilog' = IF total_size > 0
                          THEN ilog \o <<Call("write"),
                                         Progress(((downloaded + Len(chunk)) * 100) \div total_size,
                                                  "Downloading...")>>
                          ELSE Append(ilog, Call("write"))
               /\ UNCHANGED <<ipc, dl_exit>>
          ELSE UNCHANGED <<dl_entries, downloaded, ilog, ipc, dl_exit>>
       \/ \* the stream ends: return True
          /\ dl_exit' = "completed"
          /\ ipc' = "verify"
          /\ UNCHANGED <<dl_entries, downloaded, ilog>>
       \/ \* the stream or the write raises
          /\ dl_exit' = "error"
          /\ AfterDownloadFailed(ilog \o <<Failed("GET binary"), Error("ChunkedEncodingError")>>)
          /\ UNCHANGED <<dl_entries, downloaded>>
    /\ UNCHANGED <<libVars, guiVars, host, dl_exists, cli_installed, runs, latest_version, cancelled,
                   platform_name, manifest, checksum, total_size, verified, result,
                   uninstallerVars>>

\* Mutant of AfterVerify: a mismatch does not stop the run.
AfterVerify_IgnoreMismatch(v) ==
    IF v = "raised"
    THEN /\ ipc' = "crashed"
         /\ UNCHANGED result
    ELSE /\ ipc' = IF host.sys_platform # "win32" THEN "chmod" ELSE "hook"
         /\ UNCHANGED result

\* Mutant of AfterVerify: a mismatch is reported without _cleanup.
AfterVerify_NoCleanup(v) ==
    IF v = "raised"
    THEN /\ ipc' = "crashed"
         /\ UNCHANGED result
    ELSE IF v = "false"
    THEN /\ result' = <<FALSE, "Checksum verification failed">>
         /\ ipc' = "emit"
    ELSE /\ ipc' = IF host.sys_platform # "win32" THEN "chmod" ELSE "hook"
         /\ UNCHANGED result

\* run(), lines 612-618: what follows _verify_checksum's answer v.
AfterVerify(v) ==
    IF v = "raised"
    THEN /\ ipc' = "crashed"
         /\ UNCHANGED result
    ELSE IF v = "false"
    THEN /\ result' = <<FALSE, "Checksum verification failed">>
         /\ ipc' = "cleanup"
    ELSE /\ ipc' = IF host.sys_platform # "win32" THEN "chmod" ELSE "hook"
         /\ UNCHANGED result

\* run(), lines 610-615, with _verify_checksum and compute_sha256.
RunVerify ==
    /\ ipc = "verify"
    /\ \E readable \in BOOLEAN :
         LET v == verify_checksum(dl_entries[staged].data,
                                  readable /\ dl_entries[staged].kind = "file", checksum)
         IN  /\ ilog' = ilog \o <<Progress(80, "Verifying checksum..."), Call("sha256")>>
                             \o (IF readable THEN <<>> ELSE <<Failed("sha256")>>)
             /\ verified' = v
             /\ AfterVerify(v)
    /\ UNCHANGED <<libVars, guiVars, host, fsVars, cli_installed, runs, latest_version, cancelled,
                   platform_name, manifest, checksum, total_size, downloaded, dl_exit,
                   uninstallerVars>>

\* run(), lines 617-622: chmod(st_mode | S_IXUSR); an error is passed over.
RunChmod ==
    /\ ipc = "chmod"
    /\ \E ok \in BOOLEAN :
         IF ok
         THEN /\ dl_entries' = [dl_entries EXCEPT ![staged].x = TRUE]
              /\ ilog' = Append(ilog, Call("chmod"))
         ELSE /\ UNCHANGED dl_entries
              /\ ilog' = ilog \o <<Call("chmod"), Failed("chmod")>>
    /\ ipc' = "hook"
    /\ UNCHANGED <<libVars, guiVars, host, dl_exists, cli_installed, runs, latest_version, cancelled,
                   platform_name, manifest, checksum, total_size, downloaded, dl_exit, verified,
                   result, uninstallerVars>>

\* How `<binary> install` or `<binary> uninstall` can end.  A file without
\* the executable bit cannot be launched, except on Windows, and an empty
\* file cannot be launched anywhere.
HookOutcomes == {"exit0", "nonzero", "timeout", "oserror"}
CanEnd(entry, outcome) ==
    ((host.sys_platform # "win32" /\ ~entry.x) \/ Len(entry.data) = 0)
        => outcome = "oserror"

\* _run_claude_install: <<success, message>>.
run_claude_install(outcome) ==
    CASE outcome = "exit0"   -> <<TRUE, "Installation complete">>
      [] outcome = "nonzero" -> <<FALSE, "Install command failed: stderr">>
      [] outcome = "timeout" -> <<FALSE, "Install command timed out">>
      [] outcome = "oserror" -> <<FALSE, "Install command error: OSError">>

\* run(), lines 624-625, with _run_claude_install.
RunHook ==
    /\ ipc = "hook"
    /\ \E outcome \in HookOutcomes :
         /\ CanEnd(dl_entries[staged], outcome)
         /\ result' = run_claude_install(outcome)
         /\ cli_installed' = IF outcome = "exit0" THEN TRUE ELSE cli_installed
         /\ ilog' = ilog \o <<Progress(0, "Setting up Claude Code..."), Call("exec install")>>
                         \o (IF outcome = "exit0" THEN <<>> ELSE <<Failed("exec install")>>)
    /\ ipc' = "cleanup"
    /\ UNCHANGED <<libVars, guiVars, host, fsVars, runs, latest_version, cancelled, platform_name, manifest,
                   checksum, total_size, downloaded, dl_exit, verified, uninstallerVars>>

\* Mutant of RunCleanup: the staged file is left in place.
RunCleanup_Skipped ==
    /\ ipc = "cleanup"
    /\ ipc' = "emit"
    /\ UNCHANGED <<libVars, guiVars, host, fsVars, cli_installed, runs, latest_version, cancelled,
                   platform_name, manifest, checksum, total_size, downloaded, dl_exit,
                   verified, result, ilog, uninstallerVars>>

\* _cleanup(binary_path): unlink the staged file if it exists.
RunCleanup ==
    /\ ipc = "cleanup"
    /\ IF dl_entries[staged].kind = "file"
       THEN /\ dl_entries' = [dl_entries EXCEPT ![staged] = Absent]
            /\ ilog' = Append(ilog, Call("unlink"))
       ELSE UNCHANGED <<dl_entries, ilog>>
    /\ ipc' = "emit"
    /\ UNCHANGED <<libVars, guiVars, host, dl_exists, cli_installed, runs, latest_version, cancelled,
                   platform_name, manifest, checksum, total_size, downloaded, dl_exit, verified,
                   result, uninstallerVars>>

\* run(), lines 614 and 630-633: the terminal signal.
RunEmit ==
    /\ ipc = "emit"
    /\ ilog' = Append(ilog, IF result[1]
                            THEN Finished(TRUE, "Claude Code installed successfully")
                            ELSE Finished(FALSE, result[2]))
    /\ ipc' = "done"
    /\ UNCHANGED <<libVars, guiVars, host, fsVars, cli_installed, runs, latest_version, cancelled,
                   platform_name, manifest, checksum, total_size, downloaded, dl_exit, verified,
                   result, uninstallerVars>>

\* ------------------------------------------------------------------ ClaudeUninstaller
\* ClaudeUninstaller(parent), start().
UninstallerStart ==
    /\ NoWorker
    /\ runs < MaxRuns
    /\ runs' = runs + 1
    /\ upc' = "start"
    /\ ubinary' = ""
    /\ uresult' = NoResult
    /\ ulog' = <<>>
    /\ UNCHANGED <<libVars, guiVars, host, fsVars, cli_installed, installerVars>>

\* _find_claude_binary: the names it can return (iterdir's order is the
\* file system's); none when the directory is missing or holds no such file.
find_claude_binary ==
    {n \in {"claude", "claude.exe"} : dl_exists /\ dl_entries[n].kind = "file"}

\* _run_claude_uninstall, lines 666-673: look for the staged binary.
URunFind ==
    /\ upc = "start"
    /\ ulog' = Append(ulog, Progress(0, "Uninstalling Claude Code..."))
    /\ IF find_claude_binary = {}
       THEN /\ ubinary' = ""
            /\ uresult' = <<TRUE, "Uninstall complete">>
            /\ upc' = "cleanup"
       ELSE /\ ubinary' \in find_claude_binary
            /\ upc' = "exec"
            /\ UNCHANGED uresult
    /\ UNCHANGED <<libVars, guiVars, host, fsVars, cli_installed, runs, installerVars>>

\* _run_claude_uninstall, lines 685-694: <<success, message>>.
run_claude_uninstall(outcome) ==
    CASE outcome = "exit0"   -> <<TRUE, "Uninstall complete">>
      [] outcome = "nonzero" -> <<TRUE, "Uninstall complete (with warnings): stderr">>
      [] outcome = "timeout" -> <<TRUE, "Uninstall complete (with timeout)">>
      [] outcome = "oserror" -> <<FALSE, "Uninstall error: OSError">>

\* _run_claude_uninstall, lines 675-680: `<binary> uninstall`.
URunExec ==
    /\ upc = "exec"
    /\ \E outcome \in HookOutcomes :
         /\ CanEnd(dl_entries[ubinary], outcome)
         /\ uresult' = run_claude_uninstall(outcome)
         /\ cli_installed' = IF outcome = "exit0" THEN FALSE ELSE cli_installed
         /\ ulog' = ulog \o <<Call("exec uninstall")>>
                         \o (IF outcome = "exit0" THEN <<>> ELSE <<Failed("exec uninstall")>>)
    /\ upc' = "cleanup"
    /\ UNCHANGED <<libVars, guiVars, host, fsVars, runs, ubinary, installerVars>>

\* Mutant of cleanup_downloads: only the launcher's own binaries are unlinked.
cleanup_downloads_OwnFilesOnly(exists, entries) ==
    IF ~exists THEN <<exists, entries>>
    ELSE LET left == [n \in Names |->
                        IF entries[n].kind = "file" /\ n \in {"claude", "claude.exe"}
                        THEN Absent ELSE entries[n]]
         IN  <<\E n \in Names : left[n].kind # "absent", left>>

\* _cleanup_downloads: <<exists, entries>> afterwards.  Every regular file
\* is unlinked; rmdir succeeds only on a directory left empty.
cleanup_downloads(exists, entries) ==
    IF ~exists THEN <<exists, entries>>
    ELSE LET left == [n \in Names |-> IF entries[n].kind = "file" THEN Absent ELSE entries[n]]
         IN  <<\E n \in Names : left[n].kind # "absent", left>>

\* _run_claude_uninstall, lines 672, 683, 690, 693: _cleanup_downloads().
URunCleanup ==
    /\ upc = "cleanup"
    /\ LET after == cleanup_downloads(dl_exists, dl_entries) IN
       /\ dl_exists' = after[1]
       /\ dl_entries' = after[2]
    /\ ulog' = Append(ulog, Call("cleanup_downloads"))
    /\ upc' = "emit"
    /\ UNCHANGED <<libVars, guiVars, host, cli_installed, runs, ubinary, uresult, installerVars>>

\* ClaudeUninstaller.run, lines 713-718: the terminal signal.
URunEmit ==
    /\ upc = "emit"
    /\ ulog' = Append(ulog, Finished(uresult[1], uresult[2]))
    /\ upc' = "done"
    /\ UNCHANGED <<libVars, guiVars, host, fsVars, cli_installed, runs, ubinary, uresult, installerVars>>

\* ------------------------------------------------------------------ specification
Next ==
    \/ \E v \in Versions \cup {None} : InstallerStart(v)
    \/ Cancel
    \/ RunPrologue
    \/ RunFetchManifest
    \/ RunGetChecksum
    \/ RunDownloadOpen
    \/ RunDownloadChunk
    \/ RunVerify
    \/ RunChmod
    \/ RunHook
    \/ RunCleanup
    \/ RunEmit
    \/ UninstallerStart
    \/ URunFind
    \/ URunExec
    \/ URunCleanup
    \/ URunEmit

Spec == Init /\ [][Next]_vars

\* ------------------------------------------------------------------ VersionManager
\* Another released version, for an installed CLI that is not the latest.
OlderVersion == <<"2",".","1",".","4","1">>

\* check_update_needed, lines 313-351, given whether the binary is found,
\* what get_installed_version answered and what get_latest_version would.
check_update_needed(found, installed, latest) ==
    LET r == [needs_update |-> FALSE, installed |-> installed, latest |-> None,
              can_check |-> FALSE, status |-> "checking"]
    IN  IF installed = None \/ Len(installed) = 0
        THEN IF found THEN [r EXCEPT !.status = "version_check_failed"]
             ELSE [r EXCEPT !.status = "not_installed"]
        ELSE IF latest # None /\ Len(latest) > 0
        THEN IF installed # latest
             THEN [r EXCEPT !.can_check = TRUE, !.latest = latest,
                            !.needs_update = TRUE, !.status = "update_available"]
             ELSE [r EXCEPT !.can_check = TRUE, !.latest = latest, !.status = "up_to_date"]
        ELSE [r EXCEPT !.can_check = TRUE, !.latest = latest,
                       !.status = "latest_check_failed"]

_cache_ttl == 3600

\* What claude_path names: a command found on PATH, a file that is not on
\* PATH, a directory, or nothing.
PathKinds == {"on_path", "file", "dir", "absent"}

\* get_installed_version, lines 276-283: the binary is located.
Located(kind) == kind \in {"on_path", "file"}
\* check_update_needed, line 329: shutil.which(p) or Path(p).exists().
Exists(kind) == kind \in {"on_path", "file", "dir"}

\* How `<binary> --version` ends.
Exit(returncode, stdout) == [end |-> "exit", returncode |-> returncode, stdout |-> stdout]
Raises(what) == [end |-> what, returncode |-> 0, stdout |-> <<>>]
VersionQueries ==
    { Exit(0, Version \o <<" ","(","C","C",")","\n">>),
      Exit(0, <<"v">> \o OlderVersion \o <<"\n">>),
      Exit(0, <<>>),
      Exit(0, <<" ","\n">>),
      Exit(0, <<"d","e","v","\n">>),
      Exit(0, <<"2",".","1","\n">>),
      Exit(1, Version),
      Raises("TimeoutExpired"),
      Raises("FileNotFoundError"),
      Raises("PermissionError") }

\* get_installed_version, lines 276-306: <<version, status_message>>.
get_installed_version(kind, q) ==
    IF ~Located(kind) THEN <<None, "Not found">>
    ELSE IF q.end = "FileNotFoundError" THEN <<None, "Binary not found">>
    ELSE IF q.end = "TimeoutExpired" THEN <<None, "Command timed out">>
    ELSE IF q.end # "exit" THEN <<None, "Error">>
    ELSE IF q.returncode # 0 THEN <<None, "Command failed">>
    ELSE LET version == Strip(q.stdout) IN
         IF SearchVersion(version) # None THEN <<SearchVersion(version), "OK">>
         ELSE <<IF Len(version) > 0 THEN version ELSE None, "Parsed OK">>

\* What the GET of CHANGELOG_URL gives: the body, or (ok = FALSE) a
\* connection error, a timeout or a non-2xx status.
Body(text) == [ok |-> TRUE, text |-> text]
Unreachable == [ok |-> FALSE, text |-> <<>>]
H2 == <<"#","#"," ">>
ChangelogResponses ==
    { Unreachable,
      Body(<<>>),
      Body(H2 \o Version \o <<"\n">> \o H2 \o OlderVersion),
      Body(<<"#"," ","L","o","g","\n">> \o H2 \o <<"v">> \o OlderVersion \o <<"\n">>),
      Body(RELEASED \o <<" ","v">> \o Version),
      Body(<<"#"," ","L","o","g","\n">>) }

\* _fetch_changelog, lines 229-236: the text, or None.
fetch_changelog(resp) == IF resp.ok THEN resp.text ELSE None

\* Mutant of get_latest_version: when the cache is stale and nothing can be
\* parsed, the stale entry is returned and its time refreshed.
get_latest_version_StaleOnFailure(m, t, resp) ==
    IF m.cache # None /\ m.cache_time # 0 /\ t - m.cache_time < _cache_ttl
    THEN [value |-> m.cache, vm |-> m, fetched |-> FALSE]
    ELSE LET changelog == fetch_changelog(resp)
             header == SearchHeader(changelog)
             released == SearchReleased(changelog)
             found(version) == [value |-> version, fetched |-> TRUE,
                                vm |-> [cache |-> version, cache_time |-> t]]
             stale == IF m.cache = None
                      THEN [value |-> None, vm |-> m, fetched |-> TRUE]
                      ELSE [value |-> m.cache, fetched |-> TRUE,
                            vm |-> [cache |-> m.cache, cache_time |-> t]]
         IN  IF changelog = None \/ Len(changelog) = 0 THEN stale
             ELSE IF header # None THEN found(header)
             ELSE IF released # None THEN found(released)
             ELSE stale

\* Mutant of get_latest_version: the "Released:" pattern is tried first.
get_latest_version_ReleasedFirst(m, t, resp) ==
    IF m.cache # None /\ m.cache_time # 0 /\ t - m.cache_time < _cache_ttl
    THEN [value |-> m.cache, vm |-> m, fetched |-> FALSE]
    ELSE LET changelog == fetch_changelog(resp)
             header == SearchHeader(changelog)
             released == SearchReleased(changelog)
             found(version) == [value |-> version, fetched |-> TRUE,
                                vm |-> [cache |-> version, cache_time |-> t]]
         IN  IF changelog = None \/ Len(changelog) = 0
             THEN [value |-> None, vm |-> m, fetched |-> TRUE]
             ELSE IF released # None THEN found(released)
             ELSE IF header # None THEN found(header)
             ELSE [value |-> None, vm |-> m, fetched |-> TRUE]

\* get_latest_version, lines 238-268, on the instance m at time t:
\* [value, vm, fetched].
get_latest_version(m, t, resp) ==
    IF m.cache # None /\ m.cache_time # 0 /\ t - m.cache_time < _cache_ttl
    THEN [value |-> m.cache, vm |-> m, fetched |-> FALSE]
    ELSE LET changelog == fetch_changelog(resp)
             header == SearchHeader(changelog)
             released == SearchReleased(changelog)
             found(version) == [value |-> version, fetched |-> TRUE,
                                vm |-> [cache |-> version, cache_time |-> t]]
         IN  IF changelog = None \/ Len(changelog) = 0
             THEN [value |-> None, vm |-> m, fetched |-> TRUE]
             ELSE IF header # None THEN found(header)
             ELSE IF released # None THEN found(released)
             ELSE [value |-> None, vm |-> m, fetched |-> TRUE]

Lookup(op, r) == [op |-> op, time |-> now, fetched |-> r.fetched, value |-> r.value]

\* Records a get_latest_version call and leaves the instance as the call left it.
Looked(op, r) ==
    /\ Len(lookups) < MaxLookups
    /\ vm' = r.vm
    /\ lookups' = Append(lookups, Lookup(op, r))

\* _check_claude_update, lines 1339-1346: a new VersionManager, and its
\* check_update_needed(claude_path), which asks for the latest version only
\* when an installed version was answered.
CheckStatus ==
    \E kind \in PathKinds, q \in VersionQueries :
        LET installed == get_installed_version(kind, q)[1] IN
        /\ IF installed = None \/ Len(installed) = 0
           THEN /\ vm' = NewVersionManager
                /\ lookups' = lookups
                /\ vcall' = [op |-> "check_update_needed",
                             status |-> check_update_needed(Exists(kind), installed,
                                                            None).status]
           ELSE \E resp \in ChangelogResponses :
                    LET r == get_latest_version(NewVersionManager, now, resp) IN
                    /\ Looked("status", r)
                    /\ vcall' = [op |-> "check_update_needed",
                                 status |-> check_update_needed(Exists(kind), installed,
                                                                r.value).status]
        /\ UNCHANGED <<now, pcall, host, fsVars, cli_installed, workerVars, guiVars, storeVars, pathVars>>

\* _install_claude, lines 1392-1395, and _update_claude, lines 1490-1493:
\* a new VersionManager, and its get_latest_version().
LookupLatest(op) ==
    \E resp \in ChangelogResponses :
        LET r == get_latest_version(NewVersionManager, now, resp) IN
        /\ Looked(op, r)
        /\ vcall' = [op |-> "get_latest_version",
                     status |-> IF r.value = None THEN "failed" ELSE "ok"]
        /\ UNCHANGED <<now, pcall, host, fsVars, cli_installed, workerVars, guiVars, storeVars, pathVars>>

InstallLookup == LookupLatest("install")
UpdateLookup == LookupLatest("update")

\* Time passes.
Tick ==
    /\ now + TickSeconds <= MaxTime
    /\ now' = now + TickSeconds
    /\ UNCHANGED <<vm, lookups, vcall, pcall, host, fsVars, cli_installed, workerVars,
                   guiVars, storeVars, pathVars>>

InitVersion ==
    /\ InitLibrary
    /\ host = CHOOSE h \in Hosts : h.sys_platform = "linux"
    /\ dl_exists = FALSE /\ dl_entries = EmptyStaging
    /\ cli_installed = FALSE
    /\ InitWorkers
    /\ InitWindow

NextVersion ==
    \/ CheckStatus
    \/ InstallLookup
    \/ UpdateLookup
    \/ Tick

SpecVersion == InitVersion /\ [][NextVersion]_vars

\* ------------------------------------------------------------------ calls of the core's functions
\* VersionManager().check_update_needed(claude_path), lines 313-351, for
\* what claude_path names, how the version query ends and what the
\* changelog request gives.
CallCheckUpdateNeeded ==
    /\ pcall = NoCall
    /\ \E kind \in PathKinds, q \in VersionQueries, resp \in ChangelogResponses :
            LET installed == get_installed_version(kind, q)[1]
                latest == IF installed = None \/ Len(installed) = 0 THEN None
                          ELSE get_latest_version(NewVersionManager, now, resp).value
            IN  /\ pcall' = [op |-> "check_update_needed", kind |-> kind, query |-> q,
                             response |-> resp,
                             result |-> check_update_needed(Exists(kind), installed, latest)]
                /\ UNCHANGED <<now, vm, lookups, vcall, host, fsVars, cli_installed,
                               workerVars, guiVars, storeVars, pathVars>>

\* The contents a file can have, and the checksum strings a manifest can give.
Contents == UNION {[1..n -> Bytes] : n \in 0..MaxFileLen}
ExpectedChecksums ==
    {HexDigest(d) : d \in Contents} \cup {Upper(HexDigest(d)) : d \in Contents}
        \cup {<<>>, <<"x">>}

\* _verify_checksum(file_path, expected_checksum), lines 534-537, for a file
\* with the content `data` that can or cannot be read.
CallVerifyChecksum ==
    /\ pcall = NoCall
    /\ \E data \in Contents, readable \in BOOLEAN, expected \in ExpectedChecksums :
            /\ pcall' = [op |-> "verify_checksum", data |-> data, readable |-> readable,
                         expected |-> expected,
                         result |-> verify_checksum(data, readable, JStr(expected))]
            /\ UNCHANGED <<now, vm, lookups, vcall, host, fsVars, cli_installed,
                           workerVars, guiVars, storeVars, pathVars>>

\* Every host: sys.platform, platform.machine(), and how the musl probe ends.
SysPlatforms == {"darwin", "linux", "win32", "freebsd", "cygwin"}
Machines ==
    { <<"x","8","6","_","6","4">>, <<"a","m","d","6","4">>, <<"A","M","D","6","4">>,
      <<"a","r","m","6","4">>, <<"a","a","r","c","h","6","4">>, <<"A","R","M","6","4">>,
      <<"i","6","8","6">>, <<"I","A","6","4">>, <<"x","6","4">>, <<>> }
LddOutputs ==
    { <<"l","i","b","c",".","s","o">>, <<"M","u","s","l">>,
      <<"l","d","-","m","u","s","l","-","x","8","6">>, <<>> }
Probes ==
    [raised : {FALSE}, stdout : LddOutputs, musl_file : BOOLEAN]
        \cup [raised : {TRUE}, stdout : {<<>>}, musl_file : BOOLEAN]
AllHosts == [sys_platform : SysPlatforms, machine : Machines, probe : Probes]

\* OSChecker.get_download_info() on a host, with what get_os_platform() and
\* get_architecture() answer there.
CallGetDownloadInfo ==
    /\ pcall = NoCall
    /\ \E h \in AllHosts :
            /\ pcall' = [op |-> "get_download_info", host |-> h,
                         os |-> get_os_platform(h.sys_platform),
                         arch |-> get_architecture(h.machine),
                         result |-> get_download_info(h)]
            /\ UNCHANGED <<now, vm, lookups, vcall, host, fsVars, cli_installed,
                           workerVars, guiVars, storeVars, pathVars>>

\* OSChecker._is_musl_linux() for one way the probe can end.
CallIsMuslLinux ==
    /\ pcall = NoCall
    /\ \E probe \in Probes :
            /\ pcall' = [op |-> "is_musl_linux", probe |-> probe,
                         result |-> is_musl_linux(probe)]
            /\ UNCHANGED <<now, vm, lookups, vcall, host, fsVars, cli_installed,
                           workerVars, guiVars, storeVars, pathVars>>

\* f"{CLAUDE_DOWNLOAD_BASE}/{version}/{platform_name}/{binary_name}", as the
\* sequence of its pieces; Str spells the URL.
UrlOf(version, platform, name) ==
    <<CLAUDE_DOWNLOAD_BASE, "/">> \o version \o <<"/">> \o platform \o <<"/">> \o name

\* Mutant of get_download_url: the Windows name goes to every token that has "win" in it.
get_download_url_AnyWin(h, version) ==
    LET platform == get_download_info(h)[1] IN
    IF platform = None \/ Len(platform) = 0
          \/ version = None \/ Len(version) = 0
    THEN None
    ELSE UrlOf(version, platform,
               IF Contains(platform, <<"w","i","n">>)
               THEN <<"c","l","a","u","d","e",".","e","x","e">>
               ELSE <<"c","l","a","u","d","e">>)

\* ClaudeInstaller.get_download_url, lines 467-477, on host h with
\* _latest_version = version: the URL, or None.
get_download_url(h, version) ==
    LET platform == get_download_info(h)[1] IN
    IF platform = None \/ Len(platform) = 0
          \/ version = None \/ Len(version) = 0
    THEN None
    ELSE UrlOf(version, platform,
               IF StartsWith(platform, WIN32)
               THEN <<"c","l","a","u","d","e",".","e","x","e">>
               ELSE <<"c","l","a","u","d","e">>)

\* ClaudeInstaller.run, lines 568-578 and 602: the URL it goes on to
\* download from, or None when it returns before building one.
run_url(h, version) ==
    LET platform == get_download_info(h)[1] IN
    IF version = None \/ Len(version) = 0 THEN None
    ELSE IF platform = None \/ Len(platform) = 0 THEN None
    ELSE UrlOf(version, platform, get_binary_name_for_platform(platform))

\* installer.set_version(version) unless it is None, then
\* installer.get_download_url(), with the URL run() would request.
CallGetDownloadUrl ==
    /\ pcall = NoCall
    /\ \E h \in AllHosts, version \in {None, <<>>, Version, OlderVersion} :
            /\ pcall' = [op |-> "get_download_url", host |-> h, version |-> version,
                         result |-> get_download_url(h, version),
                         requested |-> run_url(h, version)]
            /\ UNCHANGED <<now, vm, lookups, vcall, host, fsVars, cli_installed,
                           workerVars, guiVars, storeVars, pathVars>>

\* Changelog bodies with both kinds of marker, with headings that carry no
\* version, and with markers that are not at the start of a line.
NL == <<"\n">>
Changelogs ==
    ChangelogResponses \cup
    { Body(RELEASED \o <<" ","v">> \o OlderVersion \o NL \o H2 \o Version \o NL),
      Body(H2 \o <<"N","e","x","t">> \o NL \o H2 \o <<"v">> \o OlderVersion \o NL
              \o H2 \o Version),
      Body(<<"#">> \o H2 \o Version \o NL \o RELEASED \o OlderVersion),
      Body(<<"x"," ">> \o H2 \o Version),
      Body(<<"#","#">> \o NL \o Version),
      Body(H2 \o <<"2",".","1">>),
      Body(RELEASED \o <<" ">> \o Version \o NL \o RELEASED \o <<" ">> \o OlderVersion) }

\* VersionManager().get_latest_version(), lines 238-268, for what the
\* changelog request gives.
CallGetLatestVersion ==
    /\ pcall = NoCall
    /\ \E resp \in Changelogs :
            /\ pcall' = [op |-> "get_latest_version", response |-> resp,
                         result |-> get_latest_version(NewVersionManager, now, resp).value]
            /\ UNCHANGED <<now, vm, lookups, vcall, host, fsVars, cli_installed,
                           workerVars, guiVars, storeVars, pathVars>>

\* The call returns to its caller.
Return ==
    /\ pcall # NoCall
    /\ pcall' = NoCall
    /\ UNCHANGED <<now, vm, lookups, vcall, host, fsVars, cli_installed, workerVars,
                   guiVars, storeVars, pathVars>>

NextCalls ==
    \/ CallCheckUpdateNeeded
    \/ CallVerifyChecksum
    \/ CallGetDownloadInfo
    \/ CallIsMuslLinux
    \/ CallGetDownloadUrl
    \/ CallGetLatestVersion
    \/ Return

SpecCalls == InitVersion /\ [][NextCalls]_vars

SpecStore == InitVersion /\ [][NextStore]_vars

\* ------------------------------------------------------------------ one VersionManager, called again and again
\* get_latest_version() on the VersionManager vm, lines 238-268, for what the
\* changelog request would give at this time.
GetLatestVersion ==
    \E resp \in Changelogs :
        LET r == get_latest_version(vm, now, resp) IN
        /\ vm' = r.vm
        /\ vcall' = [op |-> "get_latest_version", before |-> vm, time |-> now,
                     response |-> resp, fetched |-> r.fetched, result |-> r.value]
        /\ UNCHANGED <<now, lookups, pcall, host, fsVars, cli_installed, workerVars,
                       guiVars, storeVars, pathVars>>

NextCache ==
    \/ GetLatestVersion
    \/ Tick

SpecCache == InitVersion /\ [][NextCache]_vars

\* ------------------------------------------------------------------ ClaudeLauncherWindow
Top == stack[Len(stack)]
Push(frame) == stack' = Append(stack, frame)
Pop == stack' = SubSeq(stack, 1, Len(stack) - 1)

\* The event loop that is running (the application's, a modal dialog's or
\* processEvents') can deliver a timer or a queued signal.
CanDispatch == Len(stack) < MaxDepth
\* A click on the window reaches a button unless a modal dialog is open.
CanClick == CanDispatch /\ (IF Len(stack) = 0 THEN TRUE ELSE Top = "check")
Clickable(b) == b.enabled /\ b.visible

\* QTimer.singleShot(500, ...) fires: _check_claude_update, lines 1339-1344,
\* up to and into QApplication.processEvents().
StartupTimer ==
    /\ timer_pending
    /\ CanDispatch
    /\ timer_pending' = FALSE
    /\ Push("check")
    /\ UNCHANGED <<libVars, host, fsVars, cli_installed, workerVars, install_btn, update_btn,
                   uninstall_btn, installer_obj, running, queued>>

\* _update_button_states: the three buttons afterwards.
update_button_states(r) ==
    IF r.installed # None
    THEN <<Button(install_btn.enabled, FALSE),
           Button(r.needs_update, TRUE),
           Button(TRUE, TRUE)>>
    ELSE <<Button(r.status \in {"update_available", "not_installed"}, TRUE),
           Button(update_btn.enabled, FALSE),
           Button(uninstall_btn.enabled, FALSE)>>

\* _check_claude_update, lines 1346-1349: processEvents has returned.
CheckClaudeUpdate ==
    /\ Len(stack) > 0 /\ Top = "check"
    /\ \E installed \in (IF cli_installed THEN {None, Version, OlderVersion} ELSE {None}),
          latest \in {None, Version} :
         LET b == update_button_states(check_update_needed(cli_installed, installed, latest))
         IN  /\ install_btn' = b[1]
             /\ update_btn' = b[2]
             /\ uninstall_btn' = b[3]
    /\ Pop
    /\ UNCHANGED <<libVars, host, fsVars, cli_installed, workerVars, timer_pending, installer_obj,
                   running, queued>>

\* _install_claude / _update_claude up to their first dialog, lines 1392-1428
\* and 1489-1528.
AskDownload(btn, warning, question) ==
    /\ CanClick
    /\ Clickable(btn)
    /\ \E latest \in {None, Version} :
         IF latest = None \/ get_download_info(host)[1] = None
         THEN Push(warning)
         ELSE Push(question)
    /\ UNCHANGED <<libVars, host, fsVars, cli_installed, workerVars, timer_pending, install_btn,
                   update_btn, uninstall_btn, installer_obj, running, queued>>

ClickInstall == AskDownload(install_btn, "install_warning", "install_question")
ClickUpdate == AskDownload(update_btn, "update_warning", "update_question")

\* _uninstall_claude up to its dialog, lines 1537-1556.
ClickUninstall ==
    /\ CanClick
    /\ Clickable(uninstall_btn)
    /\ IF cli_installed THEN Push("uninstall_question") ELSE Push("uninstall_information")
    /\ UNCHANGED <<libVars, host, fsVars, cli_installed, workerVars, timer_pending, install_btn,
                   update_btn, uninstall_btn, installer_obj, running, queued>>

\* A warning or information dialog is closed, or a question answered No:
\* the handler returns.
DismissDialog ==
    /\ Len(stack) > 0
    /\ Top \in {"install_warning", "update_warning", "uninstall_information",
                "install_question", "update_question", "uninstall_question"}
    /\ Pop
    /\ UNCHANGED <<libVars, host, fsVars, cli_installed, workerVars, timer_pending, install_btn,
                   update_btn, uninstall_btn, installer_obj, running, queued>>

\* The install or update question is answered Yes: _start_claude_download,
\* lines 1437-1443.  The window has no _on_install_error, so connecting the
\* error signal raises AttributeError before the buttons are touched and
\* before the thread is started.
StartClaudeDownload ==
    /\ Len(stack) > 0
    /\ Top \in {"install_question", "update_question"}
    /\ Pop
    /\ installer_obj' = "created"
    /\ UNCHANGED <<libVars, host, fsVars, cli_installed, workerVars, timer_pending, install_btn,
                   update_btn, uninstall_btn, running, queued>>

\* The uninstall question is answered Yes: _start_claude_uninstall.
StartClaudeUninstall ==
    /\ Len(stack) > 0
    /\ Top = "uninstall_question"
    /\ running + Len(queued) < MaxWorkers
    /\ Pop
    /\ install_btn' = Button(FALSE, install_btn.visible)
    /\ update_btn' = Button(FALSE, update_btn.visible)
    /\ uninstall_btn' = Button(FALSE, uninstall_btn.visible)
    /\ running' = running + 1
    /\ UNCHANGED <<libVars, host, fsVars, cli_installed, workerVars, timer_pending, installer_obj,
                   queued>>

\* A ClaudeUninstaller thread the window started ends: finished(success, _)
\* is queued to the window's thread; the hook may have removed the CLI.
UninstallerFinishes ==
    /\ running > 0
    /\ running' = running - 1
    /\ \E success \in BOOLEAN : queued' = Append(queued, success)
    /\ \E removed \in BOOLEAN : cli_installed' = (cli_installed /\ ~removed)
    /\ UNCHANGED <<libVars, host, fsVars, workerVars, stack, timer_pending, install_btn, update_btn,
                   uninstall_btn, installer_obj>>

\* _on_uninstall_finished, lines 1597-1610: up to its message box.
OnUninstallFinished ==
    /\ Len(queued) > 0
    /\ CanDispatch
    /\ queued' = Tail(queued)
    /\ claude_path' = IF Head(queued) THEN "claude" ELSE claude_path
    /\ Push("uninstall_finished")
    /\ UNCHANGED <<now, vm, lookups, vcall, pcall, storeVars, ifin, host, fsVars, cli_installed,
                   workerVars, timer_pending, install_btn, update_btn, uninstall_btn,
                   installer_obj, running>>

\* Mutant of RefreshAfterUninstall: the handler returns when the message box
\* is closed, without _check_claude_update.
RefreshAfterUninstall_Skipped ==
    /\ Len(stack) > 0
    /\ Top = "uninstall_finished"
    /\ Pop
    /\ UNCHANGED <<libVars, host, fsVars, cli_installed, workerVars, timer_pending, install_btn,
                   update_btn, uninstall_btn, installer_obj, running, queued>>

\* _on_uninstall_finished, line 1613: the message box is closed and
\* _check_claude_update is entered.
RefreshAfterUninstall ==
    /\ Len(stack) > 0
    /\ Top = "uninstall_finished"
    /\ stack' = [stack EXCEPT ![Len(stack)] = "check"]
    /\ UNCHANGED <<libVars, host, fsVars, cli_installed, workerVars, timer_pending, install_btn,
                   update_btn, uninstall_btn, installer_obj, running, queued>>

InitGui ==
    /\ InitLibrary
    /\ host \in Hosts
    /\ dl_exists = FALSE /\ dl_entries = EmptyStaging
    /\ cli_installed \in BOOLEAN
    /\ InitWorkers
    /\ InitWindow

NextGui ==
    \/ StartupTimer
    \/ CheckClaudeUpdate
    \/ ClickInstall
    \/ ClickUpdate
    \/ ClickUninstall
    \/ DismissDialog
    \/ StartClaudeDownload
    \/ StartClaudeUninstall
    \/ UninstallerFinishes
    \/ OnUninstallFinished
    \/ RefreshAfterUninstall

SpecGui == InitGui /\ [][NextGui]_vars

\* ------------------------------------------------------------------ the window and its uninstaller
\* The uninstall question is answered Yes: _start_claude_uninstall, followed
\* here through the thread it starts (one uninstaller at a time).
StartUninstallerThread ==
    /\ Len(stack) > 0
    /\ Top = "uninstall_question"
    /\ running = 0
    /\ NoWorker
    /\ runs < MaxRuns
    /\ Pop
    /\ install_btn' = Button(FALSE, install_btn.visible)
    /\ update_btn' = Button(FALSE, update_btn.visible)
    /\ uninstall_btn' = Button(FALSE, uninstall_btn.visible)
    /\ running' = running + 1
    /\ runs' = runs + 1
    /\ upc' = "start"
    /\ ubinary' = ""
    /\ uresult' = NoResult
    /\ ulog' = <<>>
    /\ UNCHANGED <<libVars, host, fsVars, cli_installed, installerVars, timer_pending,
                   installer_obj, queued>>

\* ClaudeUninstaller.run, lines 713-718: the terminal signal is emitted and
\* queued to the window's thread, and the thread ends.
UninstallerEmits ==
    /\ upc = "emit"
    /\ running > 0
    /\ ulog' = Append(ulog, Finished(uresult[1], uresult[2]))
    /\ upc' = "done"
    /\ running' = running - 1
    /\ queued' = Append(queued, uresult[1])
    /\ UNCHANGED <<libVars, host, fsVars, cli_installed, runs, ubinary, uresult, installerVars,
                   stack, timer_pending, install_btn, update_btn, uninstall_btn, installer_obj>>

InitUninstall ==
    /\ InitLibrary
    /\ host \in Hosts
    /\ \E s \in InitialStagings : dl_exists = s[1] /\ dl_entries = s[2]
    /\ cli_installed \in BOOLEAN
    /\ InitWorkers
    /\ InitWindow

NextUninstall ==
    \/ StartupTimer
    \/ CheckClaudeUpdate
    \/ ClickInstall
    \/ ClickUpdate
    \/ ClickUninstall
    \/ DismissDialog
    \/ StartClaudeDownload
    \/ StartUninstallerThread
    \/ URunFind
    \/ URunExec
    \/ URunCleanup
    \/ UninstallerEmits
    \/ OnUninstallFinished
    \/ RefreshAfterUninstall

SpecUninstall == InitUninstall /\ [][NextUninstall]_vars

\* The uninstaller's thread is scheduled: each step of run() that can be taken
\* is eventually taken (subprocess.run returns, raises or times out).
SpecUninstallLive ==
    /\ SpecUninstall
    /\ WF_vars(URunFind)
    /\ WF_vars(URunExec)
    /\ WF_vars(URunCleanup)
    /\ WF_vars(UninstallerEmits)

\* ------------------------------------------------------------------ the window and its installer's signal
\* The texts the path field holds from the configuration (line 1188) or from
\* Browse (lines 1293, 1301).
ConfiguredPaths == {"claude", "/opt/claude/bin/claude"}

\* The user picks another binary for the path field.
EditPath ==
    /\ \E p \in ConfiguredPaths \ {claude_path} : claude_path' = p
    /\ UNCHANGED <<now, vm, lookups, vcall, pcall, storeVars, ifin, host, fsVars, cli_installed,
                   workerVars, guiVars>>

\* _on_install_finished, lines 1482-1484, then _update_button_states: the
\* three buttons are enabled and then set from the check's result r.
buttons_after_install(r) ==
    IF r.installed # None
    THEN <<Button(TRUE, FALSE), Button(r.needs_update, TRUE), Button(TRUE, TRUE)>>
    ELSE <<Button(r.status \in {"update_available", "not_installed"}, TRUE),
           Button(TRUE, FALSE),
           Button(TRUE, FALSE)>>

\* Lines 1468-1470: the path field after finished(success, message).
path_after_install(path, success, message) ==
    IF success /\ message # "" THEN message ELSE path

\* _on_install_finished(success, message) for the finished signal of the
\* installer's run, with the _check_claude_update it ends in.  The CLI is
\* found by the check when it is installed, discoverable at the path the field
\* held, and the field still holds that path.
OnInstallFinished ==
    /\ ipc = "done"
    /\ ifin.run # runs
    /\ \E i \in 1..Len(ilog) :
         /\ ilog[i].t = "finished"
         /\ LET path == path_after_install(claude_path, ilog[i].success, ilog[i].message) IN
            \E discoverable \in (IF cli_installed THEN BOOLEAN ELSE {FALSE}),
               latest \in {None, Version} :
              LET found == discoverable /\ path = claude_path IN
              \E installed \in (IF found THEN {None, Version, OlderVersion} ELSE {None}) :
                LET r == check_update_needed(found, installed, latest)
                    b == buttons_after_install(r)
                IN  /\ claude_path' = path
                    /\ install_btn' = b[1]
                    /\ update_btn' = b[2]
                    /\ uninstall_btn' = b[3]
                    /\ ifin' = [run |-> runs, success |-> ilog[i].success,
                                previous |-> claude_path, path |-> path,
                                discoverable |-> discoverable, status |-> r.status]
    /\ UNCHANGED <<now, vm, lookups, vcall, pcall, storeVars, host, fsVars, cli_installed,
                   workerVars, stack, timer_pending, installer_obj, running, queued>>

NextInstallFinished ==
    \/ \E v \in Versions \cup {None} : InstallerStart(v)
    \/ Cancel
    \/ RunPrologue
    \/ RunFetchManifest
    \/ RunGetChecksum
    \/ RunDownloadOpen
    \/ RunDownloadChunk
    \/ RunVerify
    \/ RunChmod
    \/ RunHook
    \/ RunCleanup
    \/ RunEmit
    \/ EditPath
    \/ OnInstallFinished

SpecInstallFinished == Init /\ [][NextInstallFinished]_vars

\* ------------------------------------------------------------------ claims
IsCall(e, what) == e.t = "call" /\ e.what = what
IsFailed(e, what) == e.t = "failed" /\ e.what = what
IsFinished(e) == e.t = "finished"
Called(log, what) == \E i \in 1..Len(log) : IsCall(log[i], what)
FailedIn(log, what) == \E i \in 1..Len(log) : IsFailed(log[i], what)
Signalled(log) == \E i \in 1..Len(log) : IsFinished(log[i])
StagedGone == dl_entries[staged].kind = "absent"

\* C1: in an install run the native install hook is started only after the
\* checksum verification of that run has succeeded.
C1_HookOnlyAfterVerified ==
    \A i \in 1..Len(ilog) :
        IsCall(ilog[i], "exec install")
            => /\ verified = "true"
               /\ \E j \in 1..(i - 1) : IsCall(ilog[j], "sha256")

C1_Witness == Called(ilog, "exec install") /\ ipc = "done"

\* C2: when an install run has ended, the file it staged no longer exists,
\* whichever way the run ended.
Opened(log) == Called(log, "open") /\ ~FailedIn(log, "open")
C2_StagedFileGoneAtEnd ==
    (ipc = "done" /\ Opened(ilog)) => StagedGone

\* C3: once the download has been aborted by the cancellation flag, the run
\* verifies nothing, sets no executable bit and starts no install hook.
C3_CancelStopsRun ==
    dl_exit = "cancelled"
        => /\ ipc = "done"
           /\ verified = "none"
           /\ ~Called(ilog, "sha256")
           /\ ~Called(ilog, "chmod")
           /\ ~Called(ilog, "exec install")

C3_Witness ==
    dl_exit = "cancelled" /\ ipc = "done" /\ Len(dl_entries[staged].data) > 0

\* C4: an install run aborted by cancel() delivers a terminal outcome to the
\* caller, and that outcome is not the failure "Download failed".
C4_CancelledOutcomeDelivered ==
    (ipc = "done" /\ dl_exit = "cancelled")
        => /\ Signalled(ilog)
           /\ \A i \in 1..Len(ilog) :
                IsFinished(ilog[i]) => ilog[i].message # "Download failed"

StageRank(what) ==
    CASE what = "GET manifest" -> 1
      [] what = "GET binary"   -> 3
      [] what = "sha256"       -> 4
      [] what = "chmod"        -> 5
      [] what = "exec install" -> 6
      [] what = "unlink"       -> 7
      [] OTHER                 -> 0
IsStage(e) == e.t = "call" /\ StageRank(e.what) > 0
C7_StagesStopAtFailure ==
    \A i, j \in 1..Len(ilog) :
        i < j =>
            /\ (IsStage(ilog[i]) /\ IsStage(ilog[j]))
                   => StageRank(ilog[i].what) < StageRank(ilog[j].what)
            /\ (ilog[i].t = "failed" /\ IsStage(ilog[j])) => ilog[j].what = "unlink"

\* C8: when the native install hook fails, the run reports failure with the
\* hook's reason, and the staged binary is gone before the report.
HookFailureReasons ==
    {"Install command failed: stderr", "Install command timed out",
     "Install command error: OSError"}
C10_UninstallAlwaysSucceeds ==
    upc = "done" => \E i \in 1..Len(ulog) : IsFinished(ulog[i]) /\ ulog[i].success

\* C6: at most one install or uninstall worker is active at any time (from
\* its start until its terminal signal is handled), under every interleaving
\* of clicks, the startup status check and the workers' signals.
C6_AtMostOneWorker == running + Len(queued) <= 1

\* The version query of a located binary gave no version: it exited non-zero,
\* timed out, or printed nothing that contains MAJOR.MINOR.PATCH.
VersionUnreadable(q) ==
    \/ q.end = "TimeoutExpired"
    \/ q.end = "exit" /\ (q.returncode # 0 \/ SearchVersion(q.stdout) = None)

Known(version) == version # None /\ Len(version) > 0

\* C11: when the binary is present but its version query exits non-zero,
\* times out or prints no MAJOR.MINOR.PATCH, check_update_needed reports
\* version_check_failed (never not_installed, never a comparison of the
\* unparsed output with the latest version).
C11_UnreadableVersionIsCheckFailed ==
    (pcall.op = "check_update_needed" /\ Located(pcall.kind)
        /\ VersionUnreadable(pcall.query))
    => pcall.result.status = "version_check_failed"

\* C12: check_update_needed returns the status of the decision table:
\* binary not located -> not_installed; installed known, latest unknown ->
\* latest_check_failed; both known and equal -> up_to_date; both known and
\* different -> update_available with needs_update.
C12_DecisionTable ==
    pcall.op = "check_update_needed" =>
        LET r == pcall.result IN
        /\ ~Located(pcall.kind) => r.status = "not_installed"
        /\ (Known(r.installed) /\ ~Known(r.latest)) => r.status = "latest_check_failed"
        /\ (Known(r.installed) /\ Known(r.latest) /\ r.installed = r.latest)
               => (r.status = "up_to_date" /\ ~r.needs_update)
        /\ (Known(r.installed) /\ Known(r.latest) /\ r.installed # r.latest)
               => (r.status = "update_available" /\ r.needs_update)

\* C13: after a latest-version retrieval succeeded at time t, every later
\* retrieval at a time less than 3600 seconds after t returns that version
\* from the cache and fetches no changelog.
C13_LaterLookupsUseCache ==
    \A i, j \in 1..Len(lookups) :
        (i < j /\ lookups[i].value # None
               /\ lookups[j].time - lookups[i].time < _cache_ttl)
        => (~lookups[j].fetched /\ lookups[j].value = lookups[i].value)

\* The decoded manifest m is a document that has no entry for the token p.
LacksToken(m, p) ==
    /\ m.t = "dict"
    /\ \/ "platforms" \notin DOMAIN m.d
       \/ m.d["platforms"].t = "dict" /\ p \notin DOMAIN m.d["platforms"].d

\* C14: an install run reports a fetched manifest that lacks the platform
\* token with a failure reason different from the one it reports when the
\* manifest request itself fails.
C14_MissingTokenDistinctFromNetwork ==
    (ipc = "done" /\ Called(ilog, "GET manifest") /\ ~FailedIn(ilog, "GET manifest")
        /\ LacksToken(manifest, platform_name))
    => \A i \in 1..Len(ilog) :
           IsFinished(ilog[i]) => ilog[i].message # "Failed to fetch manifest"

\* C15: whatever the external calls answer, a public operation ends by
\* returning or signalling a result; it never ends with an uncaught exception.
C15_NoUncaughtException == ipc # "crashed"

\* C16: _verify_checksum(file, expected) is true exactly when the file can
\* be read and its lower-cased hex digest equals the lower-cased expected
\* checksum; a content with another digest turns a true answer into false,
\* and an unreadable file gives false.
C16_VerifyIffDigestsEqual ==
    pcall.op = "verify_checksum" =>
        /\ pcall.result \in {"true", "false"}
        /\ (pcall.result = "true")
               <=> (pcall.readable
                      /\ Lower(HexDigest(pcall.data)) = Lower(pcall.expected))
        /\ pcall.result = "true" =>
               \A d \in Contents :
                   HexDigest(d) # HexDigest(pcall.data)
                   => verify_checksum(d, TRUE, JStr(pcall.expected)) = "false"
        /\ ~pcall.readable => pcall.result = "false"

\* A readable file verified against its digest spelled in upper case.
C16_Witness ==
    /\ pcall.op = "verify_checksum"
    /\ pcall.result = "true"
    /\ pcall.expected # HexDigest(pcall.data)
    /\ \E d \in Contents : HexDigest(d) # HexDigest(pcall.data)

SupportedOS == {"darwin", "linux", "win32"}
\* The architecture name of a machine string the resolver recognizes.
ArchName(machine) ==
    IF Str(Lower(machine)) \in {"x86_64", "amd64"} THEN "x64" ELSE "arm64"
Recognized(machine) == Str(Lower(machine)) \in {"x86_64", "amd64", "arm64", "aarch64"}

\* C17: for the six supported (OS, Arch) pairs get_download_info returns
\* exactly `{os}-{arch}`, with `-musl` appended if and only if the OS is
\* linux and musl is detected; darwin and win32 tokens never carry it.
C17_ExactTokens ==
    (pcall.op = "get_download_info" /\ pcall.host.sys_platform \in SupportedOS
        /\ Recognized(pcall.host.machine))
    => Str(pcall.result[1])
         = pcall.host.sys_platform \o "-" \o ArchName(pcall.host.machine)
             \o (IF pcall.host.sys_platform = "linux" /\ is_musl_linux(pcall.host.probe)
                 THEN "-musl" ELSE "")

\* A Windows host on which the musl probe would answer yes.
C17_Witness ==
    /\ pcall.op = "get_download_info"
    /\ pcall.host.sys_platform = "win32"
    /\ Recognized(pcall.host.machine)
    /\ is_musl_linux(pcall.host.probe)
    /\ Str(pcall.result[1]) \in {"win32-x64", "win32-arm64"}

EightTokens ==
    {"darwin-x64", "darwin-arm64", "linux-x64", "linux-arm64", "win32-x64", "win32-arm64",
     "linux-x64-musl", "linux-arm64-musl"}

\* C18: no token whenever the OS is not darwin/linux/win32 or the
\* raw architecture string is not one of x86_64/amd64/arm64/aarch64; an
\* unrecognized architecture string is returned unchanged by
\* get_architecture; no token outside the eight defined ones.
C18_UnsupportedAndUnchanged ==
    pcall.op = "get_download_info" =>
        LET raw == Str(pcall.host.machine)
            known == raw \in {"x86_64", "amd64", "arm64", "aarch64"}
        IN  /\ (pcall.host.sys_platform \notin SupportedOS \/ ~known)
                   => pcall.result[1] = None
            /\ ~known => pcall.arch = raw
            /\ pcall.result[1] = None \/ Str(pcall.result[1]) \in EightTokens

\* C19: musl detection always answers a boolean: true when the tool's
\* output contains "musl" in any letter case, false when it does not
\* (whatever files exist), and, when the tool invocation raises, whether a
\* known musl library file exists.
C19_MuslDetection ==
    pcall.op = "is_musl_linux" =>
        /\ pcall.result \in BOOLEAN
        /\ pcall.probe.raised => pcall.result = pcall.probe.musl_file
        /\ ~pcall.probe.raised =>
               pcall.result = (\E i \in 1..Len(pcall.probe.stdout) :
                                   i + 3 <= Len(pcall.probe.stdout)
                                   /\ Lower(SubSeq(pcall.probe.stdout, i, i + 3)) = MUSL)

\* The tool ran, its output has no "musl", and a musl library file exists.
C19_Witness ==
    /\ pcall.op = "is_musl_linux"
    /\ ~pcall.probe.raised
    /\ pcall.probe.musl_file
    /\ pcall.result = FALSE

EndsWith(s, suffix) ==
    Len(s) >= Len(suffix) /\ SubSeq(s, Len(s) - Len(suffix) + 1, Len(s)) = suffix
ArchiveExtensions ==
    { <<".","z","i","p">>, <<".","t","a","r">>, <<".","t","g","z">>, <<".","g","z">>,
      <<".","x","z">> }

\* C20: get_download_url and run() build the same URL
\* `{CLAUDE_DOWNLOAD_BASE}/{version}/{token}/{binaryName}`, with binaryName
\* "claude.exe" exactly when the token begins with "win32" and "claude"
\* otherwise; no URL ends in an archive extension; there is no URL when the
\* platform is unsupported or no version is set.
C20_DownloadUrl ==
    pcall.op = "get_download_url" =>
        LET token == get_download_info(pcall.host)[1]
            unset == pcall.version = None \/ pcall.version = <<>>
        IN  /\ pcall.requested = pcall.result
            /\ (token = None \/ unset) <=> (pcall.result = None)
            /\ pcall.result # None =>
                 /\ Str(pcall.result)
                      = CLAUDE_DOWNLOAD_BASE \o "/" \o Str(pcall.version) \o "/"
                          \o Str(token) \o "/"
                          \o (IF SubSeq(token, 1, 5) = WIN32 THEN "claude.exe" ELSE "claude")
                 /\ \A ext \in ArchiveExtensions : ~EndsWith(pcall.result, ext)

\* A URL for a darwin host: a token that has "win" in it but is not Windows.
C20_Witness ==
    /\ pcall.op = "get_download_url"
    /\ pcall.result # None
    /\ pcall.host.sys_platform = "darwin"
    /\ EndsWith(pcall.result, <<"/","c","l","a","u","d","e">>)

SameValue(a, b) == a.t = b.t /\ (a.t = "str" => a.s = b.s)
\* Every name reads, in memory and from disk, as the value last set for it.
ReadsAsLastSet ==
    \A i \in 1..Len(EnvNames) :
        /\ SameValue(get_env_var(settings, EnvNames[i]), last_set[EnvNames[i]])
        /\ SameValue(get_env_var(load_settings(sfile), EnvNames[i]), last_set[EnvNames[i]])

\* C21: after any sequence of set_env_var calls from a missing
\* settings file, get_env_var and a fresh load from disk give, for every
\* name, the value most recently set, and nothing for a name never set.
C21_ReadsLastSetAfterAnyCalls == ReadsAsLastSet

\* The start positions of the heading markers and of the "Released:"
\* markers of a changelog text.
Headings(text) == {i \in 1..Len(text) : HeaderAt(text, i) # None}
Releases(text) == {i \in 1..Len(text) : ReleasedAt(text, i) # None}
First(positions) == CHOOSE i \in positions : \A k \in positions : i <= k

\* C22: get_latest_version returns the version of the first `##` heading
\* marker if there is one, else the version of the first "Released:"
\* marker, and None if there is neither or the changelog cannot be fetched
\* or is empty.
C22_HeadingThenReleased ==
    pcall.op = "get_latest_version" =>
        LET text == pcall.response.text IN
        pcall.result =
            IF ~pcall.response.ok \/ Len(text) = 0 THEN None
            ELSE IF Headings(text) # {} THEN HeaderAt(text, First(Headings(text)))
            ELSE IF Releases(text) # {} THEN ReleasedAt(text, First(Releases(text)))
            ELSE None

\* A changelog whose "Released:" marker comes before its first heading marker.
C22_Witness ==
    /\ pcall.op = "get_latest_version"
    /\ Headings(pcall.response.text) # {}
    /\ Releases(pcall.response.text) # {}
    /\ First(Releases(pcall.response.text)) < First(Headings(pcall.response.text))
    /\ pcall.result = Version


\* The chunks written up to position i of the log (one byte each in this model).
Written(log, i) == Cardinality({j \in 1..i : IsCall(log[j], "write")})

\* C23: during a download every chunk written is followed by a progress
\* notification; when content-length is known and positive the notification
\* carries the percentage of the bytes written so far over content-length, and
\* when content-length is unknown a notification is delivered all the same.
C23_ProgressForEveryChunk ==
    \A i \in 1..Len(ilog) :
        IsCall(ilog[i], "write") =>
            /\ i < Len(ilog)
            /\ ilog[i + 1].t = "progress"
            /\ total_size > 0 =>
                   ilog[i + 1].percent = (Written(ilog, i) * 100) \div total_size


\* C24: a confirmed install or update is never dropped: _start_claude_download
\* does not leave the window with an installer that was created for the
\* confirmed version and not started, nor with a control still enabled.
C24_ConfirmedDownloadStarts ==
    installer_obj # "none" =>
        /\ installer_obj = "started"
        /\ ~install_btn.enabled /\ ~update_btn.enabled /\ ~uninstall_btn.enabled


\* C25: an uninstall run started after an install run that ended with success
\* invokes the binary's `uninstall` subcommand before it reports success.
\* (Workers do not overlap, so an installer that is done while the uninstaller
\* is about to emit finished its run before the uninstall run started.)
C25_UninstallRunsNativeUninstall ==
    (upc = "emit" /\ uresult[1] /\ ipc = "done" /\ result[1]) =>
        Called(ulog, "exec uninstall")


\* The uninstall run launched the file ubinary (the subcommand ran and ended
\* or timed out), and the file is the one the last install run wrote.
LaunchedStagedFile ==
    /\ upc = "cleanup"
    /\ Called(ulog, "exec uninstall")
    /\ uresult[1]
    /\ platform_name # None
    /\ Opened(ilog)
    /\ ubinary = staged

\* C26: a file of the staging directory is executed, with `install` or with
\* `uninstall`, only if the install run that wrote it verified its checksum
\* successfully; a partial file left by a failed or cancelled download is not
\* executed by a later uninstall run.
C26_OnlyVerifiedFilesExecuted ==
    /\ Called(ilog, "exec install") => verified = "true"
    /\ LaunchedStagedFile => verified = "true"


\* The finished signals in a log.
FinishedCount(log) == Cardinality({i \in 1..Len(log) : IsFinished(log[i])})

\* C27: an install run emits finished(success, message) at most once while
\* it runs and exactly once by the time run() has returned, on every path.
C27_InstallerFinishedExactlyOnce ==
    /\ FinishedCount(ilog) <= 1
    /\ ipc = "done" => FinishedCount(ilog) = 1


\* The window is back in its main loop with the uninstaller's signal handled.
UninstallHandled == upc = "done" /\ running = 0 /\ queued = <<>> /\ stack = <<>>

\* What _update_button_states leaves: the layout of an installed CLI (update
\* and uninstall shown, uninstall enabled) or that of a missing one (install
\* shown alone).
ControlsDerived ==
    \/ ~install_btn.visible /\ update_btn.visible /\ uninstall_btn.visible
         /\ uninstall_btn.enabled
    \/ install_btn.visible /\ ~update_btn.visible /\ ~uninstall_btn.visible

\* The finished signal of the uninstall run: never twice, and there when run()
\* has returned.
UninstallerSignalsOnce ==
    /\ FinishedCount(ulog) <= 1
    /\ upc = "done" => FinishedCount(ulog) = 1

\* C28: every uninstall run that starts comes to its end; it emits
\* finished(success, message) at most once while it runs and exactly once by
\* the time run() has returned, whatever the staging directory holds and
\* however the subcommand ends; once the window
\* has handled the signal, its controls are in a state derived by the status
\* check from the installation status.
C28_UninstallerFinishedOnceThenRefresh ==
    /\ (upc = "start") ~> (upc = "done")
    /\ [](UninstallerSignalsOnce /\ (UninstallHandled => ControlsDerived))

\* The subcommand could not be launched, the failure was signalled and
\* handled, and the status check showed the CLI still installed.
C28_Witness ==
    /\ UninstallHandled
    /\ FailedIn(ulog, "exec uninstall")
    /\ ~uresult[1]
    /\ uninstall_btn.visible /\ uninstall_btn.enabled


\* C29: after the installer reported success, the path field still names a
\* binary (the path it held, never a status message), and the status refresh
\* of the handler does not report not_installed for a CLI that is installed
\* and discoverable at the path the field held.
C29_PathStillNamesBinary ==
    (ifin.run > 0 /\ ifin.success) =>
        /\ ifin.path \in ConfiguredPaths
        /\ ifin.discoverable => ifin.status # "not_installed"


\* What the changelog of a response parses to, whatever is cached.
Parsed(resp) == get_latest_version(NewVersionManager, 0, resp).value

\* The cache entry is _cache_ttl seconds old or older at the time of the call.
Stale(m, t) == m.cache # None /\ t - m.cache_time >= _cache_ttl

\* C30: on one VersionManager a call changes the cache only by storing the
\* version it has just parsed, with the time of the call; a call that fetches
\* and parses nothing leaves the entry and its time as they were; and a call
\* that finds the entry _cache_ttl seconds old or older fetches again and
\* returns what the new changelog parses to, None if nothing, never the
\* stale version.
C30_CacheHoldsParsedVersionsOnly ==
    vcall.op = "get_latest_version" =>
        /\ vm # vcall.before =>
               /\ vcall.fetched
               /\ vcall.result # None
               /\ vcall.result = Parsed(vcall.response)
               /\ vm = [cache |-> vcall.result, cache_time |-> vcall.time]
        /\ (vcall.fetched /\ Parsed(vcall.response) = None) =>
               vcall.result = None /\ vm = vcall.before
        /\ Stale(vcall.before, vcall.time) =>
               vcall.fetched /\ vcall.result = Parsed(vcall.response)

\* A stale entry, a changelog without a marker: None is returned and the
\* entry is left as it was.
C30_Witness ==
    /\ vcall.op = "get_latest_version"
    /\ Stale(vcall.before, vcall.time)
    /\ vcall.response.ok
    /\ vcall.result = None
    /\ vm = vcall.before

====
